---- MODULE Spec2Model ----
(***************************************************************************)
(* Model of map_sdks.py (v9): the cross-reference engine that reconciles   *)
(* eight sources of {xcode_version: ios_sdk} data, and the main() pipeline *)
(* around it (parallel fetch, universe, reconciliation, change detection,  *)
(* exit status), with the prose adapters and the archive chapter adapter   *)
(* followed statement by statement.                                        *)
(*                                                                         *)
(* Representation.  A version string is the sequence of its dot-separated  *)
(* components, each component a string: "12.5.1" is <<"12","5","1">>, "9"  *)
(* is <<"9">>.  A Python dict whose iteration order is observable is a     *)
(* sequence of entries in insertion order; a dict used only for lookup is  *)
(* a function.  None is the empty sequence.  The agreement float, which    *)
(* the code rounds to two decimals, is the integer number of hundredths.   *)
(***************************************************************************)
EXTENDS Integers, Sequences, FiniteSets, TLC

VARIABLES
    pc,               \* position of main()
    run,              \* 1 = first invocation, 2 = the re-run over the same snapshots
    args,             \* parsed command line: detailed, conflicts_only, skip_xcodes
    xcodes_cli,       \* the version strings get_xcodes_versions() finds in the `xcodes list` output
    snapshot,         \* per source: what its task does (returns a raw dict, or raises)
    pending,          \* source tasks submitted and not yet collected
    raw_sources,      \* dict name -> normalised map, in insertion (completion) order
    version_urls,     \* _VERSION_URLS
    xcodes_versions,  \* main.xcodes_versions
    ordered_sources,  \* main.ordered_sources
    sorted_versions,  \* main.sorted_versions
    results,          \* main.results
    flat_new,         \* main.flat_new
    json_file,        \* content of the file at args.json
    flat_first,       \* the flat mapping computed by run 1 (history)
    exit_code,        \* process exit status, NoExit while running
    adapter           \* locals of the one source adapter that is followed statement by statement

vars == <<pc, run, args, xcodes_cli, snapshot, pending, raw_sources, version_urls,
          xcodes_versions, ordered_sources, sorted_versions, results, flat_new,
          json_file, flat_first, exit_code, adapter>>

(***************************************************************************)
(* Bounds                                                                  *)
(***************************************************************************)
NumSdk == 2           \* distinct SDK values a source may report
MaxLive == 2          \* sources with a two-key map in an engine input
MaxLiveMain == 2      \* sources that answer in a pipeline snapshot
MaxHits == 2          \* SDK patterns that match within one sentence

(***************************************************************************)
(* Program constants                                                       *)
(***************************************************************************)
SOURCE_NAMES ==
    << "local_xcodebuild", "apple_docs_json", "apple_support", "xcodereleases",
       "apple_archive_9", "apple_archive_47", "wikipedia_history", "wikipedia_xcode" >>

SourceSet == { SOURCE_NAMES[i] : i \in 1..Len(SOURCE_NAMES) }

SOURCE_URLS ==
    [ s \in SourceSet |->
        CASE s = "local_xcodebuild"  -> <<"local:xcodebuild -showsdks">>
          [] s = "apple_docs_json"   -> <<"https://developer.apple.com/tutorials/data/documentation/xcode-release-notes/">>
          [] s = "apple_support"     -> <<"https://developer.apple.com/support/xcode/">>
          [] s = "xcodereleases"     -> <<"https://xcodereleases.com/data.json">>
          [] s = "apple_archive_9"   -> <<"https://developer.apple.com/library/archive/releasenotes/DeveloperTools/RN-Xcode/Chapters/Introduction.html">>
          [] s = "apple_archive_47"  -> <<"https://developer.apple.com/library/archive/documentation/Xcode/Conceptual/RN-Xcode-Archive/Chapters/">>
          [] s = "wikipedia_history" -> <<"https://en.wikipedia.org/wiki/History_of_Xcode">>
          [] s = "wikipedia_xcode"   -> <<"https://en.wikipedia.org/wiki/Xcode">> ]

None == << >>                 \* Python None (no version or SDK string is empty of components)
NoSource == "None"            \* chosen_from = None
Dash == << "-" >>             \* the "no data" sentinel (an em dash) of the per-source breakdown
NoExit == -1                  \* the process has not exited

(***************************************************************************)
(* Version normalisation helpers                                           *)
(***************************************************************************)
\* _normalize_xcode_ver appending ".0" to every string
_normalize_xcode_ver_always(ver) == Append(ver, "0")

\* return ver if "." in ver else ver + ".0"
_normalize_xcode_ver(ver) == IF Len(ver) > 1 THEN ver ELSE Append(ver, "0")

\* ".".join(parts[:2])
MajorMinor(xcode_ver) == SubSeq(xcode_ver, 1, 2)

(***************************************************************************)
(* Cross-reference engine                                                  *)
(***************************************************************************)
\* Lookup retrying with major.minor for every version longer than two components
Lookup_any_longer_version(src_data, xcode_ver) ==
    IF xcode_ver \in DOMAIN src_data
    THEN src_data[xcode_ver]
    ELSE IF Len(xcode_ver) >= 3 /\ MajorMinor(xcode_ver) \in DOMAIN src_data
         THEN src_data[MajorMinor(xcode_ver)]
         ELSE None

\* Lookup without the major.minor retry
Lookup_direct_only(src_data, xcode_ver) ==
    IF xcode_ver \in DOMAIN src_data THEN src_data[xcode_ver] ELSE None

\* src_data.get(xcode_ver), then for a three-component version the
\* major.minor entry
Lookup(src_data, xcode_ver) ==
    IF xcode_ver \in DOMAIN src_data
    THEN src_data[xcode_ver]
    ELSE IF Len(xcode_ver) = 3 /\ MajorMinor(xcode_ver) \in DOMAIN src_data
         THEN src_data[MajorMinor(xcode_ver)]
         ELSE None

\* per_source, in the iteration order of all_sources
PerSource(xcode_ver, all_sources) ==
    [ i \in 1..Len(all_sources) |->
        [ name |-> all_sources[i].name,
          sdk  |-> Lookup(all_sources[i].data, xcode_ver) ] ]

IsFound(e) == e.sdk # None

\* found_values: the entries of per_source with a value, same order
FoundValues(xcode_ver, all_sources) ==
    SelectSeq(PerSource(xcode_ver, all_sources), IsFound)

\* found_values.get(s)
FoundGet(found, s) ==
    IF \E i \in 1..Len(found) : found[i].name = s
    THEN found[CHOOSE i \in 1..Len(found) : found[i].name = s].sdk
    ELSE None

\* set(found_values.values())
UniqueValues(found) == { found[i].sdk : i \in 1..Len(found) }

\* FirstByAuthority taking the source that was added to found_values last
FirstByAuthority_last_found(found, eligible) == found[Len(found)].name

\* FirstByAuthority scanning SOURCE_NAMES from its lowest-authority end
FirstByAuthority_reversed(found, eligible) ==
    IF \E i \in 1..Len(SOURCE_NAMES) : SOURCE_NAMES[i] \in eligible
    THEN SOURCE_NAMES[CHOOSE i \in 1..Len(SOURCE_NAMES) :
            /\ SOURCE_NAMES[i] \in eligible
            /\ \A j \in (i+1)..Len(SOURCE_NAMES) : SOURCE_NAMES[j] \notin eligible]
    ELSE found[1].name

\* next((s for s in SOURCE_NAMES if <s is eligible>), next(iter(found_values)))
FirstByAuthority(found, eligible) ==
    IF \E i \in 1..Len(SOURCE_NAMES) : SOURCE_NAMES[i] \in eligible
    THEN SOURCE_NAMES[CHOOSE i \in 1..Len(SOURCE_NAMES) :
            /\ SOURCE_NAMES[i] \in eligible
            /\ \A j \in 1..(i-1) : SOURCE_NAMES[j] \notin eligible]
    ELSE found[1].name

\* Round2 cutting the quotient off after two decimals instead of rounding
Round2_truncated(num, den) == (100 * num) \div den

\* Round2 over an integer division (n_agree // len(found_values))
Round2_floor_division(num, den) == 100 * (num \div den)

\* round(num / den, 2) in hundredths; Python rounds the quotient to the
\* nearest hundredth, an exact tie to the even one
Round2(num, den) ==
    LET q == (100 * num) \div den
        r == (100 * num) % den
    IN  IF 2 * r > den \/ (2 * r = den /\ q % 2 = 1) THEN q + 1 ELSE q

\* _url_for trying the major.minor URL of a three-component version first
_url_for_major_minor_first(urls, src_name, xcode_ver) ==
    LET ver_urls == IF src_name \in DOMAIN urls THEN urls[src_name] ELSE << >>
    IN  IF Len(xcode_ver) = 3 /\ MajorMinor(xcode_ver) \in DOMAIN ver_urls
        THEN ver_urls[MajorMinor(xcode_ver)]
        ELSE IF xcode_ver \in DOMAIN ver_urls
             THEN ver_urls[xcode_ver]
             ELSE IF src_name \in DOMAIN SOURCE_URLS THEN SOURCE_URLS[src_name] ELSE << "" >>

\* _url_for(src_name)
_url_for(urls, src_name, xcode_ver) ==
    LET ver_urls == IF src_name \in DOMAIN urls THEN urls[src_name] ELSE << >>
    IN  IF xcode_ver \in DOMAIN ver_urls
        THEN ver_urls[xcode_ver]
        ELSE IF Len(xcode_ver) = 3 /\ MajorMinor(xcode_ver) \in DOMAIN ver_urls
             THEN ver_urls[MajorMinor(xcode_ver)]
             ELSE IF src_name \in DOMAIN SOURCE_URLS THEN SOURCE_URLS[src_name] ELSE << "" >>

\* the "sources" breakdown: one entry per source of all_sources, in its order
SourcesBreakdown(found, urls, xcode_ver, all_sources) ==
    [ i \in 1..Len(all_sources) |->
        [ name  |-> all_sources[i].name,
          value |-> IF FoundGet(found, all_sources[i].name) # None
                    THEN FoundGet(found, all_sources[i].name) ELSE Dash,
          url   |-> _url_for(urls, all_sources[i].name, xcode_ver) ] ]

\* StatusOf taking one reporting source for a consensus (n >= 1)
StatusOf_consensus_of_one(found) ==
    IF UniqueValues(found) = {} THEN "not_found"
    ELSE IF Cardinality(UniqueValues(found)) = 1
         THEN IF Len(found) >= 1 THEN "consensus" ELSE "single_source"
         ELSE "conflict"

\* the status tag: not_found / single_source / consensus / conflict
StatusOf(found) ==
    IF UniqueValues(found) = {} THEN "not_found"
    ELSE IF Cardinality(UniqueValues(found)) = 1
         THEN IF Len(found) > 1 THEN "consensus" ELSE "single_source"
         ELSE "conflict"

cross_reference(xcode_ver, all_sources, urls) ==
    LET found  == FoundValues(xcode_ver, all_sources)
        unique == UniqueValues(found)
        InFound == { s \in SourceSet : \E i \in 1..Len(found) : found[i].name = s }
        breakdown == SourcesBreakdown(found, urls, xcode_ver, all_sources)
    IN  IF unique = {}
        THEN [ xcode |-> xcode_ver, ios_sdk |-> None, status |-> StatusOf(found),
               chosen_from |-> NoSource, agreement |-> 0, sources |-> breakdown ]
        ELSE IF Cardinality(unique) = 1
        THEN LET ios_sdk == CHOOSE v \in unique : TRUE
                 Agrees == { s \in SourceSet : FoundGet(found, s) = ios_sdk }
             IN  [ xcode |-> xcode_ver, ios_sdk |-> ios_sdk, status |-> StatusOf(found),
                   chosen_from |-> FirstByAuthority(found, Agrees),
                   agreement |-> Round2(1, 1), sources |-> breakdown ]
        ELSE LET chosen_from == FirstByAuthority(found, InFound)
                 ios_sdk == FoundGet(found, chosen_from)
                 n_agree == Cardinality({ i \in 1..Len(found) : found[i].sdk = ios_sdk })
             IN  [ xcode |-> xcode_ver, ios_sdk |-> ios_sdk, status |-> StatusOf(found),
                   chosen_from |-> chosen_from,
                   agreement |-> Round2(n_agree, Len(found)), sources |-> breakdown ]

(***************************************************************************)
(* Numeric version comparator (main.ver_key, _results_to_flat.ver_key)     *)
(***************************************************************************)
\* the component strings that int() accepts in this model, with their values
IntTable ==
    [ c \in {"0", "1", "2", "5", "9", "10", "12", "17", "100"} |->
        CASE c = "0" -> 0 [] c = "1" -> 1 [] c = "2" -> 2 [] c = "5" -> 5
          [] c = "9" -> 9 [] c = "10" -> 10 [] c = "12" -> 12 [] c = "17" -> 17
          [] c = "100" -> 100 ]

\* the rank of each component string in Python's str ordering
StrRank ==
    [ c \in DOMAIN IntTable |->
        CASE c = "0" -> 0 [] c = "1" -> 1 [] c = "10" -> 2 [] c = "100" -> 3
          [] c = "12" -> 4 [] c = "17" -> 5 [] c = "2" -> 6 [] c = "5" -> 7
          [] c = "9" -> 8 ]

\* ver_key leaving the components as strings (v.split(".") without int)
ver_key_as_strings(v) ==
    IF \A i \in 1..Len(v) : v[i] \in DOMAIN IntTable
    THEN [ i \in 1..Len(v) |-> StrRank[v[i]] ]
    ELSE << 0 >>

\* [int(x) for x in v.split(".")], or [0] when a component is not an integer
ver_key(v) ==
    IF \A i \in 1..Len(v) : v[i] \in DOMAIN IntTable
    THEN [ i \in 1..Len(v) |-> IntTable[v[i]] ]
    ELSE << 0 >>

\* Python's list comparison a < b
RECURSIVE ListLess(_, _)
ListLess(a, b) ==
    IF a = << >> THEN b # << >>
    ELSE IF b = << >> THEN FALSE
    ELSE IF Head(a) # Head(b) THEN Head(a) < Head(b)
    ELSE ListLess(Tail(a), Tail(b))

\* sorted(all_versions, key=ver_key, reverse=True): every listing of the set
\* in non-increasing key order (a set has no fixed iteration order, so
\* versions with equal keys may come out either way round)
SortedDescending(S) ==
    { sq \in [1..Cardinality(S) -> S] :
        /\ \A i, j \in 1..Cardinality(S) : i # j => sq[i] # sq[j]
        /\ \A i \in 1..(Cardinality(S) - 1) : ~ListLess(ver_key(sq[i]), ver_key(sq[i+1])) }

\* insert r into an ascending list after every element whose key is not
\* greater (the stable sort of _results_to_flat)
RECURSIVE InsertByKey(_, _)
InsertByKey(sorted, r) ==
    IF sorted = << >> THEN << r >>
    ELSE IF ListLess(ver_key(r.xcode), ver_key(Head(sorted).xcode))
         THEN << r >> \o sorted
         ELSE << Head(sorted) >> \o InsertByKey(Tail(sorted), r)

RECURSIVE SortedAscending(_)
SortedAscending(rows) ==
    IF rows = << >> THEN << >>
    ELSE InsertByKey(SortedAscending(SubSeq(rows, 1, Len(rows) - 1)), rows[Len(rows)])

(***************************************************************************)
(* Dict helpers                                                            *)
(***************************************************************************)
EmptyMap == [ v \in {} |-> None ]

\* out.setdefault(k, v) on a lookup dict
SetDefault(map, k, v) ==
    IF k \in DOMAIN map THEN map
    ELSE [ x \in DOMAIN map \cup {k} |-> IF x = k THEN v ELSE map[x] ]

\* _normalize_source_keys: data is the raw dict as its items in insertion order
RECURSIVE _normalize_source_keys(_)
_normalize_source_keys(data) ==
    IF data = << >> THEN EmptyMap
    ELSE LET last == data[Len(data)]
         IN  SetDefault(_normalize_source_keys(SubSeq(data, 1, Len(data) - 1)),
                        _normalize_xcode_ver(last[1]), last[2])

\* the keys of an insertion-ordered dict of pairs, and the dict as a lookup map
PairKeys(d) == { d[i][1] : i \in 1..Len(d) }
PairMap(d) == [ k \in PairKeys(d) |-> d[CHOOSE i \in 1..Len(d) : d[i][1] = k][2] ]

(***************************************************************************)
(* Output helpers                                                          *)
(***************************************************************************)
\* HasSdk letting every row through
HasSdk_every_row(r) == TRUE

\* if r.get("ios_sdk"): neither None nor the empty string
HasSdk(r) == r.ios_sdk # None /\ r.ios_sdk # << "" >>

\* flat[r["xcode"]] = r["ios_sdk"] on an insertion-ordered dict
RECURSIVE FlatOf(_)
FlatOf(rows) ==
    IF rows = << >> THEN << >>
    ELSE LET rest == FlatOf(SubSeq(rows, 1, Len(rows) - 1))
             r == rows[Len(rows)]
         IN  IF r.xcode \in PairKeys(rest)
             THEN [ i \in 1..Len(rest) |->
                      IF rest[i][1] = r.xcode THEN << r.xcode, r.ios_sdk >> ELSE rest[i] ]
             ELSE Append(rest, << r.xcode, r.ios_sdk >>)

\* _results_to_flat: ascending by ver_key, rows without an SDK left out
_results_to_flat(rows) == FlatOf(SelectSeq(SortedAscending(rows), HasSdk))

\* write_json: the file holds the flat dict
write_json(flat) == [ kind |-> "flat", body |-> flat ]

\* write_json_detailed: the same path holds {"metadata": ..., "results": ...}
write_json_detailed(rows, metadata) ==
    [ kind |-> "detailed", body |-> [ metadata |-> metadata, results |-> rows ] ]

\* MapChanged comparing the two files entry by entry in their written order
MapChanged_in_written_order(file, flat) ==
    CASE file.kind = "absent"     -> TRUE
      [] file.kind = "unparsable" -> TRUE
      [] file.kind = "flat"       -> file.body # flat
      [] file.kind = "detailed"   -> TRUE

\* json.loads(json_path.read_text()) followed by flat_old != flat_new;
\* a missing file or a parse failure leaves map_changed = True
MapChanged(file, flat) ==
    CASE file.kind = "absent"     -> TRUE
      [] file.kind = "unparsable" -> TRUE
      [] file.kind = "flat"       -> PairMap(file.body) # PairMap(flat)
      [] file.kind = "detailed"   -> TRUE   \* keys "metadata", "results" are no version

IsConflictOrMissing(r) == r.status \in {"conflict", "not_found"}

\* sys.exit(arg): an integer is the status; a string is printed and the status is 1
SysExit(arg) == IF arg.kind = "int" THEN arg.value ELSE 1

\* an exception that leaves main() ends the interpreter with status 1
UncaughtExceptionExit == 1

(***************************************************************************)
(* Source tasks                                                            *)
(***************************************************************************)
\* the provenance URL an adapter records for a version it contributes, for a
\* task taken by its outcome (apple_archive_47: answered by chapter xcode7 alone)
AdapterUrl(s, v) ==
    CASE s = "apple_docs_json"  -> << "https://developer.apple.com/tutorials/data/documentation/xcode-release-notes/xcode-{slug}-release-notes.json" >> \o v
      [] s = "apple_archive_47" -> SOURCE_URLS[s] \o << "xc7_release_notes.html" >>
      [] OTHER                  -> SOURCE_URLS[s]

\* what _run(name, fn) hands back for a task that returns: the adapter's dict
\* ({} when the adapter caught its failure)
TaskData(outcome) == IF outcome.kind = "ok" THEN outcome.data ELSE << >>

\* raw_sources[name] = _normalize_source_keys(data)
RawSet(raw, name, data) ==
    IF \E i \in 1..Len(raw) : raw[i].name = name
    THEN [ i \in 1..Len(raw) |-> IF raw[i].name = name
                                 THEN [ name |-> name, data |-> data ] ELSE raw[i] ]
    ELSE Append(raw, [ name |-> name, data |-> data ])

\* raw_sources.get(s, {})
RawGet(raw, s) ==
    IF \E i \in 1..Len(raw) : raw[i].name = s
    THEN raw[CHOOSE i \in 1..Len(raw) : raw[i].name = s].data
    ELSE EmptyMap

\* OrderedSources keeping the completion order of raw_sources
OrderedSources_as_collected(raw) == raw

\* ordered_sources = {s: raw_sources.get(s, {}) for s in SOURCE_NAMES}
OrderedSources(raw) ==
    [ i \in 1..Len(SOURCE_NAMES) |->
        [ name |-> SOURCE_NAMES[i], data |-> RawGet(raw, SOURCE_NAMES[i]) ] ]

\* AllVersions that forgets the external enumeration
AllVersions_sources_only(xv, ordered) ==
    UNION { DOMAIN ordered[i].data : i \in 1..Len(ordered) }

\* set(xcodes_versions) updated with every source's keys
AllVersions(xv, ordered) ==
    { xv[i] : i \in 1..Len(xv) } \cup
    UNION { DOMAIN ordered[i].data : i \in 1..Len(ordered) }

\* the side table after a task that returned data has run
UrlsAfter(urls, s, data) ==
    [ urls EXCEPT ![s] = [ v \in DOMAIN urls[s] \cup PairKeys(data) |->
                             IF v \in PairKeys(data) THEN AdapterUrl(s, v) ELSE urls[s][v] ] ]

NoUrls == [ s \in SourceSet |-> EmptyMap ]

\* no adapter is followed from the inside: the tasks are taken by their outcome
Idle == [ kind |-> "idle" ]

(***************************************************************************)
(* Inputs                                                                  *)
(***************************************************************************)
V2 == << "12", "5" >>             \* "12.5"
V3 == << "12", "5", "1" >>        \* "12.5.1"
V4 == << "12", "5", "1", "1" >>   \* "12.5.1.1", a heading "Xcode 12.5.1.1" as _XCODE_VER_RE reads it

SdkPool == << <<"17", "0">>, <<"17", "2">>, <<"17", "4">>, <<"17", "5">> >>
Sdks == { SdkPool[i] : i \in 1..NumSdk }

\* raw dicts an adapter may return: one entry, or entries for "12.5" and "12.5.1"
OneKeyDicts(K) == { << <<k, x>> >> : k \in K, x \in Sdks }
TwoKeyDicts == { << <<V2, x>>, <<V3, y>> >> : x \in Sdks, y \in Sdks }

Failed == [ kind |-> "failed", data |-> << >> ]
Raises == [ kind |-> "raises", data |-> << >> ]
Ok(d) == [ kind |-> "ok", data |-> d ]

\* every source but those of `live` fails; the live ones return f[s]
SnapshotOf(live, f) == [ s \in SourceSet |-> IF s \in live THEN f[s] ELSE Failed ]

\* the sources that answer in the pipeline inputs
Responsive == { "local_xcodebuild", "xcodereleases", "apple_archive_47", "wikipedia_xcode" }

\* engine inputs: any number of the eight sources reporting "12.5", or at
\* most MaxLive of the Responsive sources with one entry for "12.5", "12.5.1"
\* or "12.5.1.1", or entries for both "12.5" and "12.5.1"
WideOutcomes == { Ok(d) : d \in OneKeyDicts({V2}) }
DeepOutcomes == { Ok(d) : d \in OneKeyDicts({V2, V3, V4}) \cup TwoKeyDicts }
\* the sources that hold the larger dicts in the engine inputs; among them
\* apple_docs_json, which records one URL per version
DeepSources == { "local_xcodebuild", "apple_docs_json", "apple_archive_47", "wikipedia_xcode" }
DeepLive == { l \in SUBSET DeepSources : Cardinality(l) <= MaxLive }

\* pipeline inputs: only the Responsive sources answer, at most MaxLiveMain
\* at once; a malformed payload makes the xcodereleases task raise
MainOutcomes(s) ==
    { Ok(d) : d \in OneKeyDicts({V2, V3}) } \cup
    (IF s = "xcodereleases" THEN { Raises } ELSE {})
AnyMainOutcome == UNION { MainOutcomes(s) : s \in Responsive }
MainLive == { l \in SUBSET Responsive : Cardinality(l) <= MaxLiveMain }

\* what `xcodes list` may yield (two- and three-component versions only)
XcodesOutputs == { << >>, << V3 >>, << V3, V2 >> }

ArgSets == [ detailed : BOOLEAN, conflicts_only : BOOLEAN, skip_xcodes : BOOLEAN ]

Absent == [ kind |-> "absent", body |-> << >> ]
Unparsable == [ kind |-> "unparsable", body |-> << >> ]
\* the file at args.json before run 1: none, one that does not parse, or a
\* flat mapping (one of them listing its keys newest first)
InitialFiles ==
    { Absent, Unparsable, write_json(<< <<V2, SdkPool[1]>> >>),
      write_json(<< <<V3, SdkPool[1]>>, <<V2, SdkPool[1]>> >>) }

\* the orders in which the pipeline specification lets the tasks complete
Reverse(sq) == [ i \in 1..Len(sq) |-> sq[Len(sq) + 1 - i] ]
ArrivalOrders == { SOURCE_NAMES, Reverse(SOURCE_NAMES) }

(***************************************************************************)
(* xcodes CLI                                                              *)
(***************************************************************************)
\* get_xcodes_versions after re.findall: normalise, keep first occurrences
RECURSIVE get_xcodes_versions(_)
get_xcodes_versions(found) ==
    IF found = << >> THEN << >>
    ELSE LET unique == get_xcodes_versions(SubSeq(found, 1, Len(found) - 1))
             n == _normalize_xcode_ver(found[Len(found)])
         IN  IF \E i \in 1..Len(unique) : unique[i] = n THEN unique ELSE Append(unique, n)

(***************************************************************************)
(* Prose adapters (wikipedia_history, wikipedia_xcode)                     *)
(*                                                                         *)
(* A sentence is taken by what the regular expressions find in it: xcode   *)
(* is _XCODE_VER_RE.findall(sentence); hits lists, in the order of the     *)
(* pattern list, the captured group of each SDK pattern that matches       *)
(* (without the "iOS N and Xcode" pattern); co is the captured group of    *)
(* the "iOS N and Xcode" pattern, None when it does not match.             *)
(***************************************************************************)
ProseSources == { "wikipedia_history", "wikipedia_xcode" }

\* the task has been submitted and its adapter has not returned yet
Running == [ kind |-> "running", data |-> << >> ]

\* return ver if "." in ver else ver + ".0"
_normalize_sdk(ver) == IF Len(ver) > 1 THEN ver ELSE Append(ver, "0")

\* _first_ios_sdk over the matching patterns: the first whose major is in [2, 99]
RECURSIVE _first_ios_sdk(_)
_first_ios_sdk(hits) ==
    IF hits = << >> THEN None
    ELSE LET ver == _normalize_sdk(Head(hits))
             major == IntTable[ver[1]]
         IN  IF 2 <= major /\ major <= 99 THEN ver ELSE _first_ios_sdk(Tail(hits))

\* source_wikipedia_xcode._strict_ios over the matching patterns of _strict
RECURSIVE _strict_ios(_)
_strict_ios(hits) ==
    IF hits = << >> THEN None
    ELSE LET ver == _normalize_sdk(Head(hits))
         IN  IF 2 <= IntTable[ver[1]] /\ IntTable[ver[1]] <= 99
             THEN ver ELSE _strict_ios(Tail(hits))

\* the SDK a sentence yields: wikipedia_history asks _first_ios_sdk and then
\* the "iOS N and Xcode" search; wikipedia_xcode asks _strict_ios, whose last
\* pattern is "iOS N and Xcode"
SentenceSdk(kind, s) ==
    IF kind = "wikipedia_history"
    THEN IF _first_ios_sdk(s.hits) # None THEN _first_ios_sdk(s.hits)
         ELSE IF s.co # None THEN _normalize_sdk(s.co) ELSE None
    ELSE _strict_ios(IF s.co = None THEN s.hits ELSE Append(s.hits, s.co))

\* for xv in xcode_versions: result.setdefault(xv, ios_sdk)
RECURSIVE SetDefaultAll(_, _, _)
SetDefaultAll(result, xcode_versions, ios_sdk) ==
    IF xcode_versions = << >> THEN result
    ELSE LET before == SetDefaultAll(result,
                           SubSeq(xcode_versions, 1, Len(xcode_versions) - 1), ios_sdk)
             xv == xcode_versions[Len(xcode_versions)]
         IN  IF xv \in PairKeys(before) THEN before ELSE Append(before, << xv, ios_sdk >>)

\* one iteration of `for sentence in sentences`
ParseSentence ==
    /\ pc = "fetch"
    /\ adapter.kind \in ProseSources
    /\ snapshot[adapter.kind].kind = "running"
    /\ adapter.pos <= Len(adapter.sentences)
    /\ LET s == adapter.sentences[adapter.pos]
           xcode_versions == [ i \in 1..Len(s.xcode) |-> _normalize_xcode_ver(s.xcode[i]) ]
           ios_sdk == SentenceSdk(adapter.kind, s)
       IN  adapter' = [ adapter EXCEPT
               !.pos = @ + 1,
               !.normalized = @ \o [ i \in 1..Len(s.xcode) |-> << s.xcode[i], xcode_versions[i] >> ],
               !.result = IF xcode_versions = << >> \/ ios_sdk = None THEN @
                          ELSE SetDefaultAll(@, xcode_versions, ios_sdk) ]
    /\ UNCHANGED <<pc, run, args, xcodes_cli, snapshot, pending, raw_sources, version_urls,
                   xcodes_versions, ordered_sources, sorted_versions, results, flat_new,
                   json_file, flat_first, exit_code>>

\* the loop is over: the URL of every key is recorded and the dict returned
ProseReturn ==
    /\ pc = "fetch"
    /\ adapter.kind \in ProseSources
    /\ snapshot[adapter.kind].kind = "running"
    /\ adapter.pos > Len(adapter.sentences)
    /\ version_urls' = UrlsAfter(version_urls, adapter.kind, adapter.result)
    /\ snapshot' = [ snapshot EXCEPT ![adapter.kind] = Ok(adapter.result) ]
    /\ UNCHANGED <<pc, run, args, xcodes_cli, pending, raw_sources,
                   xcodes_versions, ordered_sources, sorted_versions, results, flat_new,
                   json_file, flat_first, exit_code, adapter>>

(***************************************************************************)
(* Archive chapter adapter (apple_archive_47)                              *)
(*                                                                         *)
(* Each chapter is fetched and parsed by a worker thread, which records    *)
(* the chapter URL for every version it found and returns; the adapter's   *)
(* own thread merges the returned dicts as as_completed hands them over.   *)
(* as_completed yields the futures that are already finished in no fixed   *)
(* order, so any finished chapter may be the next one merged.              *)
(***************************************************************************)
_APPLE_ARCHIVE_CHAPTERS ==
    [ label \in {"xcode4", "xcode6", "xcode7"} |->
        CASE label = "xcode4" -> "xc4_release_notes.html"
          [] label = "xcode6" -> "xc6_release_notes.html"
          [] label = "xcode7" -> "xc7_release_notes.html" ]

\* url = _APPLE_ARCHIVE_CHAPTER_BASE + filename
ChapterUrl(label) == SOURCE_URLS["apple_archive_47"] \o << _APPLE_ARCHIVE_CHAPTERS[label] >>

\* for xver in chapter_result: _VERSION_URLS["apple_archive_47"][xver] = url
UrlsAssigned(urls, data, url) ==
    [ urls EXCEPT !["apple_archive_47"] =
        [ v \in DOMAIN urls["apple_archive_47"] \cup PairKeys(data) |->
            IF v \in PairKeys(data) THEN url ELSE urls["apple_archive_47"][v] ] ]

\* for ver, sdk in fut.result().items(): combined.setdefault(ver, sdk), on
\* dicts of << version, value >> entries
RECURSIVE MergeSetDefault(_, _)
MergeSetDefault(combined, items) ==
    IF items = << >> THEN combined
    ELSE LET before == MergeSetDefault(combined, SubSeq(items, 1, Len(items) - 1))
             item == items[Len(items)]
         IN  IF item[1] \in PairKeys(before) THEN before ELSE Append(before, item)

\* the entries of a chapter's dict, each value replaced by the chapter label
Labelled(items, label) == [ i \in 1..Len(items) |-> << items[i][1], label >> ]

\* a worker thread ends fetch_chapter: URLs recorded, future finished
ChapterDone(label) ==
    /\ pc = "fetch"
    /\ adapter.kind = "apple_archive_47"
    /\ adapter.state[label] = "running"
    /\ version_urls' = UrlsAssigned(version_urls, adapter.chapters[label], ChapterUrl(label))
    /\ adapter' = [ adapter EXCEPT !.state[label] = "finished" ]
    /\ UNCHANGED <<pc, run, args, xcodes_cli, snapshot, pending, raw_sources,
                   xcodes_versions, ordered_sources, sorted_versions, results, flat_new,
                   json_file, flat_first, exit_code>>

\* one iteration of the as_completed loop: the dict of a finished chapter is
\* merged into combined; kept remembers which chapter supplied each entry
MergeChapter(label) ==
    /\ pc = "fetch"
    /\ adapter.kind = "apple_archive_47"
    /\ adapter.state[label] = "finished"
    /\ adapter' = [ adapter EXCEPT
           !.state[label] = "merged",
           !.combined = MergeSetDefault(@, adapter.chapters[label]),
           !.kept = MergeSetDefault(@, Labelled(adapter.chapters[label], label)) ]
    /\ UNCHANGED <<pc, run, args, xcodes_cli, snapshot, pending, raw_sources, version_urls,
                   xcodes_versions, ordered_sources, sorted_versions, results, flat_new,
                   json_file, flat_first, exit_code>>

\* return combined
ArchiveReturn ==
    /\ pc = "fetch"
    /\ adapter.kind = "apple_archive_47"
    /\ snapshot["apple_archive_47"].kind = "running"
    /\ \A label \in DOMAIN _APPLE_ARCHIVE_CHAPTERS : adapter.state[label] = "merged"
    /\ snapshot' = [ snapshot EXCEPT !["apple_archive_47"] = Ok(adapter.combined) ]
    /\ UNCHANGED <<pc, run, args, xcodes_cli, pending, raw_sources, version_urls,
                   xcodes_versions, ordered_sources, sorted_versions, results, flat_new,
                   json_file, flat_first, exit_code, adapter>>

(***************************************************************************)
(* main()                                                                  *)
(***************************************************************************)
\* the as_completed loop over tasks finishing in `order`: fut.result()
\* re-raises what a task raised, which ends the loop and main()
RECURSIVE CollectInOrder(_, _)
CollectInOrder(order, snap) ==
    IF order = << >> THEN [ crashed |-> FALSE, raw |-> << >>, urls |-> NoUrls ]
    ELSE LET before == CollectInOrder(SubSeq(order, 1, Len(order) - 1), snap)
             s == order[Len(order)]
         IN  IF before.crashed \/ snap[s].kind = "raises"
             THEN [ before EXCEPT !.crashed = TRUE ]
             ELSE [ crashed |-> FALSE,
                    raw  |-> RawSet(before.raw, s, _normalize_source_keys(TaskData(snap[s]))),
                    urls |-> UrlsAfter(before.urls, s, TaskData(snap[s])) ]

Locals0 ==
    /\ pending = {}
    /\ raw_sources = << >>
    /\ version_urls = NoUrls
    /\ xcodes_versions = << >>
    /\ ordered_sources = << >>
    /\ sorted_versions = << >>
    /\ results = << >>
    /\ flat_new = << >>

\* Step 1: enumerate via the xcodes CLI, then submit the eight source tasks
Step1 ==
    /\ pc = "start"
    /\ xcodes_versions' = IF args.skip_xcodes THEN << >> ELSE get_xcodes_versions(xcodes_cli)
    /\ pending' = SourceSet
    /\ pc' = "fetch"
    /\ UNCHANGED <<run, args, xcodes_cli, snapshot, raw_sources, version_urls,
                   ordered_sources, sorted_versions, results, flat_new,
                   json_file, flat_first, exit_code, adapter>>

\* Step 2, one future of as_completed: the task of source s is the next to finish
TaskDone(s) ==
    /\ pc = "fetch"
    /\ s \in pending
    /\ snapshot[s].kind # "running"
    /\ IF snapshot[s].kind = "raises"
       THEN /\ pc' = "crashed"
            /\ exit_code' = UncaughtExceptionExit
            /\ UNCHANGED <<pending, raw_sources, version_urls>>
       ELSE /\ raw_sources' = RawSet(raw_sources, s, _normalize_source_keys(TaskData(snapshot[s])))
            /\ version_urls' = UrlsAfter(version_urls, s, TaskData(snapshot[s]))
            /\ pending' = pending \ {s}
            /\ UNCHANGED <<pc, exit_code>>
    /\ UNCHANGED <<run, args, xcodes_cli, snapshot, xcodes_versions, ordered_sources,
                   sorted_versions, results, flat_new, json_file, flat_first, adapter>>

\* Step 2 as a whole, the tasks finishing in one of ArrivalOrders
FetchAll ==
    /\ pc = "fetch"
    /\ pending = SourceSet
    /\ \A s \in SourceSet : snapshot[s].kind # "running"
    /\ \E order \in ArrivalOrders :
         LET c == CollectInOrder(order, snapshot)
         IN  IF c.crashed
             THEN /\ pc' = "crashed"
                  /\ exit_code' = UncaughtExceptionExit
                  /\ UNCHANGED <<pending, raw_sources, version_urls>>
             ELSE /\ raw_sources' = c.raw
                  /\ version_urls' = c.urls
                  /\ pending' = {}
                  /\ UNCHANGED <<pc, exit_code>>
    /\ UNCHANGED <<run, args, xcodes_cli, snapshot, xcodes_versions, ordered_sources,
                   sorted_versions, results, flat_new, json_file, flat_first, adapter>>

\* Step 3: ordered_sources, the version universe, the fatal exit when it is
\* empty, and the newest-first processing order
BuildUniverse ==
    /\ pc = "fetch"
    /\ pending = {}
    /\ ordered_sources' = OrderedSources(raw_sources)
    /\ LET all_versions == AllVersions(xcodes_versions, OrderedSources(raw_sources))
       IN  IF all_versions = {}
           THEN /\ pc' = "fatal"
                /\ exit_code' = SysExit([ kind |-> "str",
                       value |-> "ERROR: No Xcode versions found from any source. Check network." ])
                /\ UNCHANGED sorted_versions
           ELSE /\ sorted_versions' \in SortedDescending(all_versions)
                /\ pc' = "xref"
                /\ UNCHANGED exit_code
    /\ UNCHANGED <<run, args, xcodes_cli, snapshot, pending, raw_sources, version_urls,
                   xcodes_versions, results, flat_new, json_file, flat_first, adapter>>

\* Step 4, one iteration: entry = cross_reference(ver, ordered_sources)
CrossReferenceStep ==
    /\ pc = "xref"
    /\ Len(results) < Len(sorted_versions)
    /\ results' = Append(results,
           cross_reference(sorted_versions[Len(results) + 1], ordered_sources, version_urls))
    /\ UNCHANGED <<pc, run, args, xcodes_cli, snapshot, pending, raw_sources, version_urls,
                   xcodes_versions, ordered_sources, sorted_versions, flat_new,
                   json_file, flat_first, exit_code, adapter>>

\* Step 5: output rows, the flat mapping, change detection against the file
\* at args.json, the write to that same path, and the exit status
WriteOutputs ==
    /\ pc = "xref"
    /\ Len(results) = Len(sorted_versions)
    /\ LET output_rows == IF args.conflicts_only
                          THEN SelectSeq(results, IsConflictOrMissing) ELSE results
           flat == _results_to_flat(output_rows)
           map_changed == MapChanged(json_file, flat)
       IN  /\ flat_new' = flat
           /\ json_file' = IF args.detailed
                           THEN write_json_detailed(output_rows,
                                    [ generated_at |-> run, total_versions |-> Len(results) ])
                           ELSE write_json(flat)
           /\ exit_code' = SysExit([ kind |-> "int", value |-> IF map_changed THEN 1 ELSE 0 ])
           /\ flat_first' = IF run = 1 THEN flat ELSE flat_first
    /\ pc' = "done"
    /\ UNCHANGED <<run, args, xcodes_cli, snapshot, pending, raw_sources, version_urls,
                   xcodes_versions, ordered_sources, sorted_versions, results, adapter>>

\* the program is started again with the same arguments over the same
\* snapshots; only the file at args.json survives the first process
Rerun ==
    /\ pc \in {"done", "fatal", "crashed"}
    /\ run = 1
    /\ run' = 2
    /\ pc' = "start"
    /\ exit_code' = NoExit
    /\ pending' = {}
    /\ raw_sources' = << >>
    /\ version_urls' = NoUrls
    /\ xcodes_versions' = << >>
    /\ ordered_sources' = << >>
    /\ sorted_versions' = << >>
    /\ results' = << >>
    /\ flat_new' = << >>
    /\ UNCHANGED <<args, xcodes_cli, snapshot, json_file, flat_first, adapter>>

(***************************************************************************)
(* Specifications                                                          *)
(***************************************************************************)
\* the cross-reference engine over bounded inputs, entered where main()
\* enters its Step 4 loop
Init ==
    /\ pc = "xref"
    /\ run = 1
    /\ args = [ detailed |-> FALSE, conflicts_only |-> FALSE, skip_xcodes |-> FALSE ]
    /\ xcodes_cli \in { << >>, << V3 >>, << V2 >> }
    /\ xcodes_versions = get_xcodes_versions(xcodes_cli)
    /\ \/ \E live \in SUBSET SourceSet : \E f \in [ live -> WideOutcomes ] :
            snapshot = SnapshotOf(live, f)
       \/ \E live \in DeepLive : \E f \in [ live -> DeepOutcomes ] :
            snapshot = SnapshotOf(live, f)
    /\ pending = {}
    /\ raw_sources = CollectInOrder(SOURCE_NAMES, snapshot).raw
    /\ version_urls = CollectInOrder(SOURCE_NAMES, snapshot).urls
    /\ ordered_sources = OrderedSources(raw_sources)
    /\ AllVersions(xcodes_versions, ordered_sources) # {}
    /\ sorted_versions \in SortedDescending(AllVersions(xcodes_versions, ordered_sources))
    /\ results = << >>
    /\ flat_new = << >>
    /\ json_file = Absent
    /\ flat_first = << >>
    /\ exit_code = NoExit
    /\ adapter = Idle

Next == CrossReferenceStep

Spec == Init /\ [][Next]_vars

\* main() from its first statement, run twice
InitMain ==
    /\ pc = "start"
    /\ run = 1
    /\ args \in ArgSets
    /\ xcodes_cli \in IF args.skip_xcodes THEN { << >> } ELSE XcodesOutputs
    /\ \E live \in MainLive : \E f \in [ live -> AnyMainOutcome ] :
            /\ \A s \in live : f[s] \in MainOutcomes(s)
            /\ snapshot = SnapshotOf(live, f)
    /\ json_file \in InitialFiles
    /\ flat_first = << >>
    /\ exit_code = NoExit
    /\ Locals0
    /\ adapter = Idle

NextMain ==
    \/ Step1
    \/ FetchAll
    \/ BuildUniverse
    \/ CrossReferenceStep
    \/ WriteOutputs
    \/ Rerun

SpecMain == InitMain /\ [][NextMain]_vars

\* main() once, the eight source tasks finishing in every possible order
FetchSnapshots ==
    { SnapshotOf({"local_xcodebuild", "wikipedia_xcode"},
                 [ s \in {"local_xcodebuild", "wikipedia_xcode"} |->
                     IF s = "local_xcodebuild" THEN Ok(<< <<V2, SdkPool[1]>> >>)
                     ELSE Ok(<< <<V2, x>> >>) ]) : x \in Sdks }
    \cup
    { SnapshotOf({"xcodereleases", "wikipedia_xcode"},
                 [ s \in {"xcodereleases", "wikipedia_xcode"} |->
                     IF s = "xcodereleases" THEN Raises
                     ELSE Ok(<< <<V2, SdkPool[1]>> >>) ]) }

InitFetch ==
    /\ pc = "start"
    /\ run = 1
    /\ args = [ detailed |-> FALSE, conflicts_only |-> FALSE, skip_xcodes |-> FALSE ]
    /\ xcodes_cli = << V3 >>
    /\ snapshot \in FetchSnapshots
    /\ json_file = Absent
    /\ flat_first = << >>
    /\ exit_code = NoExit
    /\ Locals0
    /\ adapter = Idle

NextFetch ==
    \/ Step1
    \/ \E s \in SourceSet : TaskDone(s)
    \/ BuildUniverse
    \/ CrossReferenceStep
    \/ WriteOutputs

SpecFetch == InitFetch /\ [][NextFetch]_vars

\* main() once over sources whose keys sort differently as numbers and as
\* strings: xcodereleases and wikipedia_xcode each hold some of SortPool,
\* with different SDK values
SortPool == << << "10", "0" >>, << "9", "2" >>, << "9", "10" >>, V3 >>
SortVersions == { SortPool[i] : i \in 1..Len(SortPool) }

\* the raw dict holding value x under the keys K, inserted in SortPool order
DictOver(K, x) ==
    LET all == [ i \in 1..Len(SortPool) |-> << SortPool[i], x >> ]
        InK(e) == e[1] \in K
    IN  SelectSeq(all, InK)

InitSort ==
    /\ pc = "start"
    /\ run = 1
    /\ args \in [ detailed : {FALSE}, conflicts_only : BOOLEAN, skip_xcodes : {FALSE} ]
    /\ xcodes_cli \in { << >>, << SortPool[2], SortPool[1] >> }
    /\ \E K1 \in SUBSET SortVersions : \E K2 \in SUBSET SortVersions :
          /\ K1 # {}
          /\ snapshot = SnapshotOf({"xcodereleases", "wikipedia_xcode"},
                 [ s \in {"xcodereleases", "wikipedia_xcode"} |->
                     IF s = "xcodereleases" THEN Ok(DictOver(K1, SdkPool[1]))
                     ELSE Ok(DictOver(K2, SdkPool[NumSdk])) ])
    /\ json_file = Absent
    /\ flat_first = << >>
    /\ exit_code = NoExit
    /\ adapter = Idle
    /\ Locals0

NextSort ==
    \/ Step1
    \/ FetchAll
    \/ BuildUniverse
    \/ CrossReferenceStep
    \/ WriteOutputs

SpecSort == InitSort /\ [][NextSort]_vars

\* main() once with one prose adapter followed sentence by sentence, every
\* other source failing
Captures == { << "1" >>, << "17" >>, << "17", "2" >>, << "100" >> }
XcodeCaptures == { << >>, << << "9" >> >>, << << "9" >>, V2 >> }

\* "Xcode 9.0 includes the iOS 17.2 SDK"
LeadSentence == [ xcode |-> << << "9", "0" >> >>, hits |-> << << "17", "2" >> >>, co |-> None ]

InitProse ==
    /\ pc = "start"
    /\ run = 1
    /\ args = [ detailed |-> FALSE, conflicts_only |-> FALSE, skip_xcodes |-> FALSE ]
    /\ xcodes_cli \in { << >>, << V2, V3, V2 >> }
    /\ \E kind \in ProseSources : \E xc \in XcodeCaptures : \E n \in 0..MaxHits :
       \E h \in [ 1..n -> Captures ] : \E co \in Captures \cup { None } : \E lead \in BOOLEAN :
          /\ snapshot = [ s \in SourceSet |-> IF s = kind THEN Running ELSE Failed ]
          /\ adapter = [ kind |-> kind,
                         sentences |-> (IF lead THEN << LeadSentence >> ELSE << >>)
                                       \o << [ xcode |-> xc, hits |-> h, co |-> co ] >>,
                         pos |-> 1,
                         normalized |-> << >>,
                         result |-> << >> ]
    /\ json_file = Absent
    /\ flat_first = << >>
    /\ exit_code = NoExit
    /\ Locals0

NextProse ==
    \/ Step1
    \/ ParseSentence
    \/ ProseReturn
    \/ FetchAll
    \/ BuildUniverse
    \/ CrossReferenceStep
    \/ WriteOutputs

SpecProse == InitProse /\ [][NextProse]_vars

\* the apple_archive_47 task from the submission of its three chapter
\* fetches to its return, every other source failing
A70 == << "7", "0" >>             \* "7.0"
A64 == << "6", "4" >>             \* "6.4"

\* what a chapter page parses to: nothing (or the fetch failed), one of the
\* two versions, or both
ChapterDicts ==
    { << >> } \cup
    { << << v, x >> >> : v \in {A70, A64}, x \in Sdks } \cup
    { << << A70, x >>, << A64, y >> >> : x \in Sdks, y \in Sdks }

InitArchive ==
    /\ pc = "fetch"
    /\ run = 1
    /\ args = [ detailed |-> FALSE, conflicts_only |-> FALSE, skip_xcodes |-> TRUE ]
    /\ xcodes_cli = << >>
    /\ snapshot = [ s \in SourceSet |-> IF s = "apple_archive_47" THEN Running ELSE Failed ]
    /\ \E chapters \in [ DOMAIN _APPLE_ARCHIVE_CHAPTERS -> ChapterDicts ] :
          adapter = [ kind |-> "apple_archive_47",
                      chapters |-> chapters,
                      state |-> [ label \in DOMAIN _APPLE_ARCHIVE_CHAPTERS |-> "running" ],
                      combined |-> << >>,
                      kept |-> << >> ]
    /\ pending = SourceSet
    /\ raw_sources = << >>
    /\ version_urls = NoUrls
    /\ xcodes_versions = << >>
    /\ ordered_sources = << >>
    /\ sorted_versions = << >>
    /\ results = << >>
    /\ flat_new = << >>
    /\ json_file = Absent
    /\ flat_first = << >>
    /\ exit_code = NoExit

NextArchive ==
    \/ \E label \in DOMAIN _APPLE_ARCHIVE_CHAPTERS : ChapterDone(label)
    \/ \E label \in DOMAIN _APPLE_ARCHIVE_CHAPTERS : MergeChapter(label)
    \/ ArchiveReturn

SpecArchive == InitArchive /\ [][NextArchive]_vars

(***************************************************************************)
(* Properties                                                              *)
(***************************************************************************)
Records == { results[i] : i \in 1..Len(results) }

\* what the source with map `data` says about version v: its entry for v,
\* else for a three-component v its entry for the first two components
Contributed(data, v) ==
    IF v \in DOMAIN data THEN data[v]
    ELSE IF Len(v) = 3 /\ << v[1], v[2] >> \in DOMAIN data THEN data[<< v[1], v[2] >>]
    ELSE None

\* authority ranks (positions in SOURCE_NAMES) of the sources reporting v
Reporting(v) ==
    { i \in 1..Len(ordered_sources) : Contributed(ordered_sources[i].data, v) # None }

ValueOf(i, v) == Contributed(ordered_sources[i].data, v)

ReportedValues(v) == { ValueOf(i, v) : i \in Reporting(v) }

Agreeing(r) == { i \in Reporting(r.xcode) : ValueOf(i, r.xcode) = r.ios_sdk }

\* C1: in a conflict record the resolved value is the value of the first
\* source in authority order that reported any value for the version, and
\* chosen_from names that source, however many lower sources agree on
\* another value.
C1_ConflictFollowsAuthority ==
    \A r \in Records :
        r.status = "conflict" =>
            /\ Reporting(r.xcode) # {}
            /\ \E first \in Reporting(r.xcode) :
                 /\ \A j \in Reporting(r.xcode) : first <= j
                 /\ r.ios_sdk = ValueOf(first, r.xcode)
                 /\ r.chosen_from = SOURCE_NAMES[first]

\* a conflict whose winner stands alone against two or more lower sources
\* that agree with each other
C1_Witness ==
    \E r \in Records :
        /\ r.status = "conflict"
        /\ Cardinality(Agreeing(r)) = 1
        /\ \E x \in ReportedValues(r.xcode) :
             /\ x # r.ios_sdk
             /\ Cardinality({ i \in Reporting(r.xcode) : ValueOf(i, r.xcode) = x }) >= 2

\* C2: a record is not_found exactly when no source contributed a value for
\* its version, by direct or by major.minor lookup; such a record has no
\* resolved value, no chosen source and agreement 0.0.
C2_NotFoundIffNoReport ==
    \A r \in Records :
        /\ (r.status = "not_found") <=> (Reporting(r.xcode) = {})
        /\ r.status = "not_found" =>
             r.ios_sdk = None /\ r.chosen_from = NoSource /\ r.agreement = 0

\* a not_found record for a version that no source knows although some
\* source reports another version
C2_Witness ==
    \E r \in Records :
        /\ r.status = "not_found"
        /\ Reporting(r.xcode) = {}
        /\ \E i \in 1..Len(ordered_sources) : DOMAIN ordered_sources[i].data # {}

\* C3: consensus exactly when two or more sources reported and all values are
\* the same; single_source exactly when one source reported; conflict exactly
\* when two or more reported and two or more distinct values were reported.
C3_StatusPartition ==
    \A r \in Records :
        LET n == Cardinality(Reporting(r.xcode))
            d == Cardinality(ReportedValues(r.xcode))
        IN  /\ r.status \in {"consensus", "single_source", "conflict", "not_found"}
            /\ (r.status = "consensus")     <=> (n >= 2 /\ d = 1)
            /\ (r.status = "single_source") <=> (n = 1)
            /\ (r.status = "conflict")      <=> (n >= 2 /\ d >= 2)

\* one run's records holding a consensus and a single-source record
C3_Witness ==
    /\ \E r \in Records : r.status = "consensus" /\ Cardinality(Reporting(r.xcode)) >= 2
    /\ \E r \in Records : r.status = "single_source"

\* C4: a second run over the same snapshots computes the same flat mapping
\* and exits with 0 ("unchanged"), whatever the output mode.
C4_SecondRunUnchanged ==
    (run = 2 /\ pc = "done") => (flat_new = flat_first /\ exit_code = 0)

\* C5: the exit status of the empty-universe failure differs from both the
\* "no change" status 0 and the "changed" status 1.
C5_FatalStatusDistinct ==
    pc = "fatal" => exit_code \notin {0, 1}

\* C6: a failing source task contributes an empty mapping, the other
\* mappings are collected, the run goes on to reconciliation; no source
\* failure aborts the run.
C6_SourceFailureIsolated ==
    /\ pc # "crashed"
    /\ pc \in {"xref", "done"} =>
         \A i \in 1..Len(ordered_sources) :
            ordered_sources[i].data =
               IF snapshot[ordered_sources[i].name].kind = "ok"
               THEN PairMap(snapshot[ordered_sources[i].name].data)
               ELSE EmptyMap

\* the universe is complete: the loop of Step 4 has run to its end
Reconciled == pc = "done" \/ (pc = "xref" /\ Len(results) = Len(sorted_versions))

SourceKeys == UNION { DOMAIN ordered_sources[i].data : i \in 1..Len(ordered_sources) }

EnumeratedOnly == { xcodes_versions[i] : i \in 1..Len(xcodes_versions) } \ SourceKeys

\* C7 as stated: a version that only the external enumeration supplied is
\* resolved not_found with no value, and is in the universe and the records.
C7_EnumeratedOnlyNotFound ==
    Reconciled =>
        \A v \in EnumeratedOnly :
            /\ \E i \in 1..Len(sorted_versions) : sorted_versions[i] = v
            /\ \E r \in Records : r.xcode = v
            /\ \A r \in Records : r.xcode = v => (r.status = "not_found" /\ r.ios_sdk = None)

\* C7 amended: the same for a version that only the external enumeration
\* supplied and whose major.minor truncation, when it has three components,
\* is no key of any source map either; every enumerated version is in the
\* universe and the records.
C7_EnumeratedOnlyNoFallbackNotFound ==
    Reconciled =>
        \A v \in EnumeratedOnly :
            /\ \E i \in 1..Len(sorted_versions) : sorted_versions[i] = v
            /\ \E r \in Records : r.xcode = v
            /\ (Len(v) = 3 => << v[1], v[2] >> \notin SourceKeys) =>
                 \A r \in Records : r.xcode = v => (r.status = "not_found" /\ r.ios_sdk = None)

\* an enumerated-only version resolved not_found while a source reports
\* another version
C7_Witness ==
    /\ pc = "done"
    /\ SourceKeys # {}
    /\ \E v \in EnumeratedOnly :
         \E r \in Records : r.xcode = v /\ r.status = "not_found" /\ r.ios_sdk = None

\* the records and the flat mapping main() computes when the tasks finish
\* in the order of SOURCE_NAMES
ReferenceCollect == CollectInOrder(SOURCE_NAMES, snapshot)
ReferenceSources == OrderedSources(ReferenceCollect.raw)
ReferenceResults ==
    { [ i \in 1..Len(sv) |-> cross_reference(sv[i], ReferenceSources, ReferenceCollect.urls) ] :
        sv \in SortedDescending(AllVersions(xcodes_versions, ReferenceSources)) }

\* C8: whatever the completion order of the source tasks, the records and
\* the flat mapping are those of the run in which the tasks finish in the
\* order of SOURCE_NAMES.
C8_ArrivalOrderIrrelevant ==
    pc = "done" =>
        /\ results \in ReferenceResults
        /\ \E ref \in ReferenceResults : flat_new = _results_to_flat(ref)

\* a finished run whose tasks did not finish in authority order and whose
\* sources disagree
C8_Witness ==
    /\ pc = "done"
    /\ \E i \in 1..Len(raw_sources) : raw_sources[i].name # SOURCE_NAMES[i]
    /\ raw_sources[1].name = "wikipedia_xcode"
    /\ \E r \in Records : r.status = "conflict"

\* C9 as stated: agreement is exactly agreeing / reporting.
C9_AgreementExactRatio ==
    \A r \in Records :
        Reporting(r.xcode) # {} =>
            r.agreement * Cardinality(Reporting(r.xcode)) = 100 * Cardinality(Agreeing(r))

\* C9 amended: agreement is agreeing / reporting rounded to two decimals (the
\* nearest hundredth, a tie going to the even one), and 0.0 when no source
\* reported.
C9_AgreementRoundedRatio ==
    \A r \in Records :
        LET n == Cardinality(Reporting(r.xcode))
            k == Cardinality(Agreeing(r))
            err == 100 * k - r.agreement * n
        IN  IF n = 0 THEN r.agreement = 0
            ELSE /\ r.agreement \in 0..100
                 /\ 2 * err <= n /\ 2 * err >= -n
                 /\ (2 * err = n \/ 2 * err = -n) => r.agreement % 2 = 0

\* one agreeing source out of three reporting: 0.33
C9_Witness ==
    \E r \in Records :
        /\ Cardinality(Reporting(r.xcode)) = 3
        /\ Cardinality(Agreeing(r)) = 1
        /\ r.agreement = 33

\* C10: agreement lies in [0,1]; it is 1.0 exactly for consensus and
\* single_source, strictly between 0 and 1 for conflict, 0.0 for not_found.
C10_AgreementRange ==
    \A r \in Records :
        /\ r.agreement \in 0..100
        /\ (r.agreement = 100) <=> (r.status \in {"consensus", "single_source"})
        /\ r.status = "conflict" => (0 < r.agreement /\ r.agreement < 100)
        /\ r.status = "not_found" => r.agreement = 0

\* a conflict in which one of eight reporting sources holds the resolved value
C10_Witness ==
    \E r \in Records :
        /\ r.status = "conflict"
        /\ Cardinality(Reporting(r.xcode)) = 8
        /\ Cardinality(Agreeing(r)) = 1
        /\ r.agreement = 12

\* C11: in every record, what each source contributes is its entry for the
\* record's version when it has one; else, for a version of exactly three
\* components, its entry for the first two components; else nothing.  A
\* version of two or of four components takes nothing but its own entry.
BreakdownValue(r, i) ==
    IF r.sources[i].value = Dash THEN None ELSE r.sources[i].value

C11_FallbackOnlyForThreeComponents ==
    \A r \in Records : \A i \in 1..Len(ordered_sources) :
        LET data == ordered_sources[i].data
            v == r.xcode
        IN  /\ r.sources[i].name = ordered_sources[i].name
            /\ v \in DOMAIN data => BreakdownValue(r, i) = data[v]
            /\ (v \notin DOMAIN data /\ Len(v) = 3 /\ << v[1], v[2] >> \in DOMAIN data)
                  => BreakdownValue(r, i) = data[<< v[1], v[2] >>]
            /\ (v \notin DOMAIN data /\ Len(v) = 3 /\ << v[1], v[2] >> \notin DOMAIN data)
                  => BreakdownValue(r, i) = None
            /\ (v \notin DOMAIN data /\ Len(v) # 3) => BreakdownValue(r, i) = None

\* a four-component version whose record leaves out a source that knows its
\* major.minor, and a three-component version served by the major.minor entry
C11_Witness ==
    /\ \E r \in Records : \E i \in 1..Len(ordered_sources) :
          /\ Len(r.xcode) = 4
          /\ r.xcode \notin DOMAIN ordered_sources[i].data
          /\ << r.xcode[1], r.xcode[2] >> \in DOMAIN ordered_sources[i].data
          /\ r.sources[i].value = Dash
    /\ \E r \in Records : \E i \in 1..Len(ordered_sources) :
          /\ Len(r.xcode) = 3
          /\ r.xcode \notin DOMAIN ordered_sources[i].data
          /\ r.sources[i].value # Dash

\* C12: the flat mapping holds no null value; each of its keys is the
\* version of a record whose status is not not_found, and the value under the
\* key is that record's resolved value.
C12_FlatHasNoNullValue ==
    pc = "done" =>
        \A i \in 1..Len(flat_new) :
            /\ flat_new[i][2] # None
            /\ \E r \in Records :
                  /\ r.xcode = flat_new[i][1]
                  /\ r.status # "not_found"
                  /\ r.ios_sdk = flat_new[i][2]

\* a finished run whose records include a not_found one next to resolved ones
C12_Witness ==
    /\ pc = "done"
    /\ flat_new # << >>
    /\ \E r \in Records : r.status = "not_found" /\ r.xcode \notin PairKeys(flat_new)

\* the two files hold the same keys with the same values
SameMapping(a, b) ==
    /\ { a[i][1] : i \in 1..Len(a) } = { b[j][1] : j \in 1..Len(b) }
    /\ \A i \in 1..Len(a) : \A j \in 1..Len(b) : a[i][1] = b[j][1] => a[i][2] = b[j][2]

\* C14: the step that ends a run exits 0 exactly when the file found at
\* args.json was a flat mapping with the key set and the values of the new
\* one, in whatever order; a missing or unparsable file gives exit 1, and
\* the step never ends with another status.
C14_UnchangedOnlyForSameMapping ==
    [][ (pc = "xref" /\ pc' = "done") =>
          /\ exit_code' \in {0, 1}
          /\ exit_code' = 0 <=> (json_file.kind = "flat" /\ SameMapping(json_file.body, flat_new'))
          /\ json_file.kind \in {"absent", "unparsable"} => exit_code' = 1 ]_vars

\* a first run that exits 0 over a two-key mapping: the file it found listed
\* the same entries newest first
C14_Witness ==
    /\ pc = "done"
    /\ run = 1
    /\ exit_code = 0
    /\ Len(flat_new) = 2
    /\ ~args.detailed
    /\ json_file.body[1][1] = V2

\* C16: in a consensus or single_source record the chosen source is the
\* first one in authority order among the sources that reported a value for
\* the version, and the resolved value is the value that source reported; in
\* any record with a resolved value, some source reported that value for the
\* version.
C16_ChosenIsFirstReporter ==
    \A r \in Records :
        /\ r.status \in {"consensus", "single_source"} =>
              \E k \in 1..Len(SOURCE_NAMES) :
                  /\ r.chosen_from = SOURCE_NAMES[k]
                  /\ r.sources[k].value # Dash
                  /\ r.sources[k].value = r.ios_sdk
                  /\ \A j \in 1..(k - 1) : r.sources[j].value = Dash
                  /\ ValueOf(k, r.xcode) = r.ios_sdk
        /\ r.ios_sdk # None =>
              \E k \in 1..Len(ordered_sources) : ValueOf(k, r.xcode) = r.ios_sdk

\* a consensus of three or more sources, the highest-ranked source silent
C16_Witness ==
    \E r \in Records :
        /\ r.status = "consensus"
        /\ Cardinality(Reporting(r.xcode)) >= 3
        /\ 1 \notin Reporting(r.xcode)
        /\ r.chosen_from # NoSource

\* C18: every record has one breakdown entry per source, in authority order,
\* holding the source's value or the sentinel; its URL is the one the source
\* recorded for the record's version, else for a three-component version the
\* one it recorded for major.minor, else the source's static base URL.
C18_UrlPrecedence ==
    \A r \in Records :
        /\ Len(r.sources) = Len(SOURCE_NAMES)
        /\ \A i \in 1..Len(SOURCE_NAMES) :
              LET s == SOURCE_NAMES[i]
                  recorded == version_urls[s]
                  v == r.xcode
                  short == << v[1], v[2] >>
              IN  /\ r.sources[i].name = s
                  /\ r.sources[i].value = IF ValueOf(i, v) = None THEN Dash ELSE ValueOf(i, v)
                  /\ v \in DOMAIN recorded => r.sources[i].url = recorded[v]
                  /\ (v \notin DOMAIN recorded /\ Len(v) = 3 /\ short \in DOMAIN recorded)
                        => r.sources[i].url = recorded[short]
                  /\ (v \notin DOMAIN recorded /\ ~(Len(v) = 3 /\ short \in DOMAIN recorded))
                        => r.sources[i].url = SOURCE_URLS[s]

\* the record of "12.5.1" showing the three cases at once: a source with URLs
\* for both "12.5.1" and "12.5", one with a URL for "12.5" only, and a silent one
C18_Witness ==
    \E r \in Records : \E i, j, k \in 1..Len(SOURCE_NAMES) :
        /\ r.xcode = V3
        /\ V3 \in DOMAIN version_urls[SOURCE_NAMES[i]]
        /\ V2 \in DOMAIN version_urls[SOURCE_NAMES[i]]
        /\ version_urls[SOURCE_NAMES[i]][V3] # version_urls[SOURCE_NAMES[i]][V2]
        /\ r.sources[i].url = version_urls[SOURCE_NAMES[i]][V3]
        /\ V3 \notin DOMAIN version_urls[SOURCE_NAMES[j]]
        /\ V2 \in DOMAIN version_urls[SOURCE_NAMES[j]]
        /\ r.sources[j].url # SOURCE_URLS[SOURCE_NAMES[j]]
        /\ version_urls[SOURCE_NAMES[k]] = EmptyMap
        /\ r.sources[k].value = Dash
        /\ r.sources[k].url = SOURCE_URLS[SOURCE_NAMES[k]]

\* a before b, comparing the components as integers from the left; a proper
\* prefix comes first
NumLess(a, b) ==
    \E k \in 1..(Len(b)) :
        /\ \A j \in 1..(k - 1) : j <= Len(a) /\ IntTable[a[j]] = IntTable[b[j]]
        /\ \/ k = Len(a) + 1
           \/ k <= Len(a) /\ IntTable[a[k]] < IntTable[b[k]]

\* C13: the keys of the flat mapping ascend under the integer comparison of
\* their components, and the records are produced in the opposite order,
\* newest first.
C13_FlatAscendingRecordsDescending ==
    /\ pc = "done" =>
          \A i \in 1..(Len(flat_new) - 1) : NumLess(flat_new[i][1], flat_new[i + 1][1])
    /\ pc \in {"xref", "done"} =>
          /\ \A i \in 1..(Len(sorted_versions) - 1) :
                NumLess(sorted_versions[i + 1], sorted_versions[i])
          /\ \A i \in 1..Len(results) : results[i].xcode = sorted_versions[i]

\* a finished run whose flat mapping lists "9.2", "9.10" and "10.0" in that
\* order while the records were produced "10.0" first
C13_Witness ==
    /\ pc = "done"
    /\ \E i \in 1..(Len(flat_new) - 2) :
          /\ flat_new[i][1] = << "9", "2" >>
          /\ flat_new[i + 1][1] = << "9", "10" >>
          /\ flat_new[i + 2][1] = << "10", "0" >>
    /\ results[1].xcode # flat_new[1][1]
    /\ Len(results) > Len(flat_new)

\* C15: every SDK value in the dict a prose adapter builds has its major
\* component in [2, 99], whichever pattern list or fallback search found it.
C15_SdkMajorInRange ==
    adapter.kind \in ProseSources =>
        \A i \in 1..Len(adapter.result) :
            /\ IntTable[adapter.result[i][2][1]] >= 2
            /\ IntTable[adapter.result[i][2][1]] <= 99

\* C17: a version string without a "." is normalised to itself followed by
\* ".0", one with a "." is left as it is, normalising the adapter's keys
\* again in main() changes none of them, and no version of the universe is
\* a bare major.
C17_NormalizeAppendsOnceOnly ==
    /\ adapter.kind \in ProseSources =>
          /\ \A i \in 1..Len(adapter.normalized) :
                LET x == adapter.normalized[i][1]
                    y == adapter.normalized[i][2]
                IN  /\ Len(x) = 1 => y = x \o << "0" >>
                    /\ Len(x) > 1 => y = x
          /\ pc \in {"xref", "done"} =>
                \E k \in 1..Len(ordered_sources) :
                    /\ ordered_sources[k].name = adapter.kind
                    /\ DOMAIN ordered_sources[k].data = PairKeys(adapter.result)
    /\ pc \in {"xref", "done"} =>
          /\ \A i \in 1..Len(sorted_versions) : Len(sorted_versions[i]) >= 2
          /\ \A i \in 1..Len(xcodes_cli) : \E j \in 1..Len(sorted_versions) :
                sorted_versions[j] = xcodes_cli[i]

\* a finished run whose adapter read "Xcode 9" and "Xcode 12.5" in a sentence
\* with an SDK: the universe holds "9.0" and "12.5"
C17_Witness ==
    /\ pc = "done"
    /\ adapter.kind \in ProseSources
    /\ \E i, j \in 1..Len(adapter.normalized) :
          /\ adapter.normalized[i][1] = << "9" >>
          /\ adapter.normalized[j][1] = V2
    /\ \E i, j \in 1..Len(sorted_versions) :
          /\ sorted_versions[i] = << "9", "0" >>
          /\ sorted_versions[j] = V2
    /\ << "9", "0" >> \in PairKeys(adapter.result)

\* C19: when the archive chapter adapter has returned, the URL recorded for
\* each version of the merged mapping is the URL of the chapter whose value
\* the merge kept for that version, in whatever order the chapters finished.
C19_UrlOfKeptChapter ==
    (adapter.kind = "apple_archive_47" /\ snapshot["apple_archive_47"].kind = "ok") =>
        \A i \in 1..Len(adapter.kept) :
            version_urls["apple_archive_47"][adapter.kept[i][1]] = ChapterUrl(adapter.kept[i][2])

====
